---------------------------- MODULE Spec2Model ----------------------------
(***************************************************************************)
(* Model of server/disease_detection.py: a one-shot command-line process   *)
(* that takes a base64 image payload as its first argument, runs           *)
(* model_prediction on it and prints the JSON result.                      *)
(*                                                                         *)
(* Text is modelled as sequences of one-character strings, so that split,  *)
(* replace, lower, substring search and concatenation are computed the way *)
(* the code computes them.  The library calls are modelled by what they do *)
(* to the data: binascii's non-validating base64 decoder, Pillow's lazy    *)
(* open/load (a signature byte followed by the sample of a 1x1 greyscale   *)
(* image stands for an image file), numpy's mean, str() of a float (a      *)
(* decimal expansion of bounded precision), the per-process keyed hash()   *)
(* of a str, and json.dumps.                                               *)
(***************************************************************************)
EXTENDS Integers, Sequences, FiniteSets, TLC

(***************************************************************************)
(* Bounds of the model.                                                    *)
(***************************************************************************)
\* Longest enumerated image-data argument, in characters.
MaxLen == 4
\* The process's hash secret (PYTHONHASHSEED randomisation) ranges over 0..MaxSeed.
MaxSeed == 37
\* Digits after the decimal point kept by the model of str(float).
MeanDigits == 3

(***************************************************************************)
(* Literal data of the source.                                             *)
(***************************************************************************)
class_names ==
  << <<"A","p","p","l","e","_","_","A","p","p","l","e","_","s","c","a","b">>,
     <<"A","p","p","l","e","_","_","B","l","a","c","k","_","r","o","t">>,
     <<"A","p","p","l","e","_","_","C","e","d","a","r","_","a","p","p","l","e","_","r",
       "u","s","t">>,
     <<"A","p","p","l","e","_","_","h","e","a","l","t","h","y">>,
     <<"B","l","u","e","b","e","r","r","y","_","_","h","e","a","l","t","h","y">>,
     <<"C","h","e","r","r","y","_","_","P","o","w","d","e","r","y","_","m","i","l","d",
       "e","w">>,
     <<"C","h","e","r","r","y","_","_","h","e","a","l","t","h","y">>,
     <<"C","o","r","n","_","_","C","e","r","c","o","s","p","o","r","a","_","l","e","a",
       "f","_","s","p","o","t">>,
     <<"C","o","r","n","_","_","C","o","m","m","o","n","_","r","u","s","t">>,
     <<"C","o","r","n","_","_","N","o","r","t","h","e","r","n","_","L","e","a","f","_",
       "B","l","i","g","h","t">>,
     <<"C","o","r","n","_","_","h","e","a","l","t","h","y">>,
     <<"G","r","a","p","e","_","_","B","l","a","c","k","_","r","o","t">>,
     <<"G","r","a","p","e","_","_","E","s","c","a">>,
     <<"G","r","a","p","e","_","_","L","e","a","f","_","b","l","i","g","h","t">>,
     <<"G","r","a","p","e","_","_","h","e","a","l","t","h","y">>,
     <<"O","r","a","n","g","e","_","_","H","u","a","n","g","l","o","n","g","b","i","n",
       "g">>,
     <<"P","e","a","c","h","_","_","B","a","c","t","e","r","i","a","l","_","s","p","o",
       "t">>,
     <<"P","e","a","c","h","_","_","h","e","a","l","t","h","y">>,
     <<"P","e","p","p","e","r","_","_","B","a","c","t","e","r","i","a","l","_","s","p",
       "o","t">>,
     <<"P","e","p","p","e","r","_","_","h","e","a","l","t","h","y">>,
     <<"P","o","t","a","t","o","_","_","E","a","r","l","y","_","b","l","i","g","h","t">>,
     <<"P","o","t","a","t","o","_","_","L","a","t","e","_","b","l","i","g","h","t">>,
     <<"P","o","t","a","t","o","_","_","h","e","a","l","t","h","y">>,
     <<"R","a","s","p","b","e","r","r","y","_","_","h","e","a","l","t","h","y">>,
     <<"S","o","y","b","e","a","n","_","_","h","e","a","l","t","h","y">>,
     <<"S","q","u","a","s","h","_","_","P","o","w","d","e","r","y","_","m","i","l","d",
       "e","w">>,
     <<"S","t","r","a","w","b","e","r","r","y","_","_","L","e","a","f","_","s","c","o",
       "r","c","h">>,
     <<"S","t","r","a","w","b","e","r","r","y","_","_","h","e","a","l","t","h","y">>,
     <<"T","o","m","a","t","o","_","_","B","a","c","t","e","r","i","a","l","_","s","p",
       "o","t">>,
     <<"T","o","m","a","t","o","_","_","E","a","r","l","y","_","b","l","i","g","h","t">>,
     <<"T","o","m","a","t","o","_","_","L","a","t","e","_","b","l","i","g","h","t">>,
     <<"T","o","m","a","t","o","_","_","L","e","a","f","_","M","o","l","d">>,
     <<"T","o","m","a","t","o","_","_","S","e","p","t","o","r","i","a","_","l","e","a",
       "f","_","s","p","o","t">>,
     <<"T","o","m","a","t","o","_","_","S","p","i","d","e","r","_","m","i","t","e","s">>,
     <<"T","o","m","a","t","o","_","_","T","a","r","g","e","t","_","S","p","o","t">>,
     <<"T","o","m","a","t","o","_","_","Y","e","l","l","o","w","_","L","e","a","f","_",
       "C","u","r","l","_","V","i","r","u","s">>,
     <<"T","o","m","a","t","o","_","_","M","o","s","a","i","c","_","v","i","r","u","s">>,
     <<"T","o","m","a","t","o","_","_","h","e","a","l","t","h","y">> >>

disease_info_keys ==
  << <<"A","p","p","l","e"," ","s","c","a","b">>,
     <<"B","l","a","c","k"," ","r","o","t">>,
     <<"L","a","t","e"," ","b","l","i","g","h","t">>,
     <<"E","a","r","l","y"," ","b","l","i","g","h","t">>,
     <<"P","o","w","d","e","r","y"," ","m","i","l","d","e","w">> >>

disease_info_values ==
  << [description |->
        <<"F","u","n","g","a","l"," ","d","i","s","e","a","s","e"," ","c","a","u","s","i",
          "n","g"," ","o","l","i","v","e","-","g","r","e","e","n"," ","v","e","l","v","e",
          "t","y"," ","s","p","o","t","s"," ","o","n"," ","l","e","a","v","e","s"," ","a",
          "n","d"," ","f","r","u","i","t","s">>,
      prevention |->
        <<"U","s","e"," ","r","e","s","i","s","t","a","n","t"," ","v","a","r","i","e","t",
          "i","e","s",","," ","e","n","s","u","r","e"," ","g","o","o","d"," ","a","i","r",
          " ","c","i","r","c","u","l","a","t","i","o","n",","," ","a","p","p","l","y"," ",
          "f","u","n","g","i","c","i","d","e"," ","s","p","r","a","y","s">>,
      treatment |->
        <<"A","p","p","l","y"," ","C","a","p","t","a","n"," ","o","r"," ","M","a","n","c",
          "o","z","e","b"," ","f","u","n","g","i","c","i","d","e",","," ","p","r","u","n",
          "e"," ","i","n","f","e","c","t","e","d"," ","a","r","e","a","s">>],
     [description |->
        <<"F","u","n","g","a","l"," ","d","i","s","e","a","s","e"," ","c","a","u","s","i",
          "n","g"," ","b","l","a","c","k"," ","c","i","r","c","u","l","a","r"," ","l","e",
          "s","i","o","n","s"," ","o","n"," ","f","r","u","i","t","s"," ","a","n","d"," ",
          "l","e","a","v","e","s">>,
      prevention |->
        <<"R","e","m","o","v","e"," ","i","n","f","e","c","t","e","d"," ","p","l","a","n",
          "t"," ","d","e","b","r","i","s",","," ","e","n","s","u","r","e"," ","p","r","o",
          "p","e","r"," ","s","p","a","c","i","n","g",","," ","a","v","o","i","d"," ","o",
          "v","e","r","h","e","a","d"," ","w","a","t","e","r","i","n","g">>,
      treatment |->
        <<"A","p","p","l","y"," ","c","o","p","p","e","r","-","b","a","s","e","d"," ","f",
          "u","n","g","i","c","i","d","e","s",","," ","r","e","m","o","v","e"," ","i","n",
          "f","e","c","t","e","d"," ","f","r","u","i","t","s"," ","i","m","m","e","d","i",
          "a","t","e","l","y">>],
     [description |->
        <<"D","e","v","a","s","t","a","t","i","n","g"," ","f","u","n","g","a","l"," ","d",
          "i","s","e","a","s","e"," ","c","a","u","s","i","n","g"," ","w","a","t","e","r",
          "-","s","o","a","k","e","d"," ","s","p","o","t","s"," ","a","n","d"," ","p","l",
          "a","n","t"," ","d","e","a","t","h">>,
      prevention |->
        <<"U","s","e"," ","r","e","s","i","s","t","a","n","t"," ","v","a","r","i","e","t",
          "i","e","s",","," ","a","v","o","i","d"," ","o","v","e","r","h","e","a","d"," ",
          "i","r","r","i","g","a","t","i","o","n",","," ","e","n","s","u","r","e"," ","g",
          "o","o","d"," ","d","r","a","i","n","a","g","e">>,
      treatment |->
        <<"A","p","p","l","y"," ","M","e","t","a","l","a","x","y","l"," ","o","r"," ","c",
          "o","p","p","e","r","-","b","a","s","e","d"," ","f","u","n","g","i","c","i","d",
          "e","s",","," ","d","e","s","t","r","o","y"," ","i","n","f","e","c","t","e","d",
          " ","p","l","a","n","t","s">>],
     [description |->
        <<"F","u","n","g","a","l"," ","d","i","s","e","a","s","e"," ","c","a","u","s","i",
          "n","g"," ","b","r","o","w","n"," ","c","o","n","c","e","n","t","r","i","c"," ",
          "r","i","n","g","s"," ","o","n"," ","o","l","d","e","r"," ","l","e","a","v","e",
          "s">>,
      prevention |->
        <<"R","o","t","a","t","e"," ","c","r","o","p","s",","," ","a","v","o","i","d"," ",
          "o","v","e","r","h","e","a","d"," ","w","a","t","e","r","i","n","g",","," ","m",
          "a","i","n","t","a","i","n"," ","p","l","a","n","t"," ","s","p","a","c","i","n",
          "g">>,
      treatment |->
        <<"A","p","p","l","y"," ","C","h","l","o","r","o","t","h","a","l","o","n","i","l",
          " ","o","r"," ","M","a","n","c","o","z","e","b"," ","f","u","n","g","i","c","i",
          "d","e"," ","s","p","r","a","y","s">>],
     [description |->
        <<"F","u","n","g","a","l"," ","d","i","s","e","a","s","e"," ","c","a","u","s","i",
          "n","g"," ","w","h","i","t","e"," ","p","o","w","d","e","r","y"," ","c","o","a",
          "t","i","n","g"," ","o","n"," ","l","e","a","v","e","s">>,
      prevention |->
        <<"E","n","s","u","r","e"," ","g","o","o","d"," ","a","i","r"," ","c","i","r","c",
          "u","l","a","t","i","o","n",","," ","a","v","o","i","d"," ","o","v","e","r","h",
          "e","a","d"," ","w","a","t","e","r","i","n","g",","," ","p","l","a","n","t"," ",
          "i","n"," ","s","u","n","n","y"," ","l","o","c","a","t","i","o","n","s">>,
      treatment |->
        <<"A","p","p","l","y"," ","s","u","l","f","u","r","-","b","a","s","e","d"," ","f",
          "u","n","g","i","c","i","d","e","s"," ","o","r"," ","n","e","e","m"," ","o","i",
          "l">>] >>

GenericPrevention ==
  <<"M","a","i","n","t","a","i","n"," ","g","o","o","d"," ","p","l","a","n","t"," ","h",
    "y","g","i","e","n","e",","," ","u","s","e"," ","r","e","s","i","s","t","a","n","t",
    " ","v","a","r","i","e","t","i","e","s",","," ","e","n","s","u","r","e"," ","p","r",
    "o","p","e","r"," ","s","p","a","c","i","n","g">>

GenericTreatment ==
  <<"C","o","n","s","u","l","t"," ","a","g","r","i","c","u","l","t","u","r","a","l"," ",
    "e","x","t","e","n","s","i","o","n"," ","s","e","r","v","i","c","e","s"," ","f","o",
    "r"," ","s","p","e","c","i","f","i","c"," ","t","r","e","a","t","m","e","n","t"," ",
    "r","e","c","o","m","m","e","n","d","a","t","i","o","n","s">>

FailurePrefix ==
  <<"D","i","s","e","a","s","e"," ","d","e","t","e","c","t","i","o","n"," ","f","a","i",
    "l","e","d",":"," ">>

NoImageDataMessage ==
  <<"N","o"," ","i","m","a","g","e"," ","d","a","t","a"," ","p","r","o","v","i","d","e",
    "d">>

Affecting ==
  <<" ","a","f","f","e","c","t","i","n","g"," ">>

IncorrectPaddingMessage ==
  <<"I","n","c","o","r","r","e","c","t"," ","p","a","d","d","i","n","g">>

DataCharsMessageHead ==
  <<"I","n","v","a","l","i","d"," ","b","a","s","e","6","4","-","e","n","c","o","d","e",
    "d"," ","s","t","r","i","n","g",":"," ","n","u","m","b","e","r"," ","o","f"," ","d",
    "a","t","a"," ","c","h","a","r","a","c","t","e","r","s"," ","(">>

DataCharsMessageTail ==
  <<")"," ","c","a","n","n","o","t"," ","b","e"," ","1"," ","m","o","r","e"," ","t","h",
    "a","n"," ","a"," ","m","u","l","t","i","p","l","e"," ","o","f"," ","4">>

NonAsciiMessage ==
  <<"s","t","r","i","n","g"," ","a","r","g","u","m","e","n","t"," ","s","h","o","u","l",
    "d"," ","c","o","n","t","a","i","n"," ","o","n","l","y"," ","A","S","C","I","I"," ",
    "c","h","a","r","a","c","t","e","r","s">>

UnidentifiedMessage ==
  <<"c","a","n","n","o","t"," ","i","d","e","n","t","i","f","y"," ","i","m","a","g","e",
    " ","f","i","l","e"," ","<","_","i","o",".","B","y","t","e","s","I","O"," ","o","b",
    "j","e","c","t",">">>

TruncatedMessage ==
  <<"i","m","a","g","e"," ","f","i","l","e"," ","i","s"," ","t","r","u","n","c","a","t",
    "e","d">>

IndexErrorMessage ==
  <<"l","i","s","t"," ","i","n","d","e","x"," ","o","u","t"," ","o","f"," ","r","a","n",
    "g","e">>

NotBase64Literal ==
  <<"n","o","t","-","b","a","s","e","6","4","!","!">>

Base64Alphabet ==
  <<"A","B","C","D","E","F","G","H","I","J","K","L","M","N","O","P","Q","R","S","T","U",
    "V","W","X","Y","Z","a","b","c","d","e","f","g","h","i","j","k","l","m","n","o","p",
    "q","r","s","t","u","v","w","x","y","z","0","1","2","3","4","5","6","7","8","9","+",
    "/">>

UpperCase ==
  <<"A","B","C","D","E","F","G","H","I","J","K","L","M","N","O","P","Q","R","S","T","U",
    "V","W","X","Y","Z">>

LowerCase ==
  <<"a","b","c","d","e","f","g","h","i","j","k","l","m","n","o","p","q","r","s","t","u",
    "v","w","x","y","z">>

(***************************************************************************)
(* Text helpers: Python's str operations on sequences of characters.       *)
(***************************************************************************)
\* s[i:] for a 1-based i.
Drop(s, n) == SubSeq(s, n + 1, Len(s))

Take(s, n) == SubSeq(s, 1, n)

\* s.find(p, i): the 0-based offset of the leftmost occurrence of p at or after
\* offset i, -1 when there is none.
RECURSIVE FindFrom(_, _, _)
FindFrom(s, p, i) ==
  IF i + Len(p) > Len(s) THEN -1
  ELSE IF SubSeq(s, i + 1, i + Len(p)) = p THEN i
  ELSE FindFrom(s, p, i + 1)

Find(s, p) == FindFrom(s, p, 0)

\* p in s
Contains(s, p) == Find(s, p) >= 0

\* s.split(sep): the pieces between the non-overlapping occurrences of sep,
\* scanned from the left.
RECURSIVE Split(_, _)
Split(s, sep) ==
  LET i == Find(s, sep)
  IN  IF i < 0 THEN << s >>
      ELSE << Take(s, i) >> \o Split(Drop(s, i + Len(sep)), sep)

\* s.replace(old, new) for single characters.
RECURSIVE ReplaceChar(_, _, _)
ReplaceChar(s, old, new) ==
  IF s = << >> THEN << >>
  ELSE << IF Head(s) = old THEN new ELSE Head(s) >> \o ReplaceChar(Tail(s), old, new)

\* The lower-case letter of each upper-case letter.
LowerOf ==
  [c \in { UpperCase[i] : i \in 1..Len(UpperCase) } |->
     LowerCase[CHOOSE i \in 1..Len(UpperCase) : UpperCase[i] = c]]

LowerChar(c) == IF c \in DOMAIN LowerOf THEN LowerOf[c] ELSE c

\* s.lower()
RECURSIVE Lower(_)
Lower(s) == IF s = << >> THEN << >> ELSE << LowerChar(Head(s)) >> \o Lower(Tail(s))

Digits == <<"0","1","2","3","4","5","6","7","8","9">>

\* str(n) for an integer n >= 0.
RECURSIVE IntToStr(_)
IntToStr(n) == IF n < 10 THEN << Digits[n + 1] >> ELSE IntToStr(n \div 10) \o << Digits[(n % 10) + 1] >>

\* ord(c) for the characters str(float) produces.
Ord(c) ==
  IF c = "." THEN 46
  ELSE 48 + (CHOOSE d \in 0..9 : Digits[d + 1] = c)

\* All sequences over S of length at most n.
SeqsUpTo(S, n) == UNION { [1..k -> S] : k \in 0..n }

(***************************************************************************)
(* Exceptions: a raised exception is a class name and its message; a step  *)
(* either returns a value or raises.                                       *)
(***************************************************************************)
Ok(v) == [ok |-> TRUE, value |-> v]

Raise(type, msg) == [ok |-> FALSE, exc |-> [type |-> type, msg |-> msg]]

\* The base class of each exception class the steps can raise.
BaseOf(type) ==
  CASE type = "binascii.Error" -> "ValueError"
    [] type = "ValueError" -> "Exception"
    [] type = "UnidentifiedImageError" -> "OSError"
    [] type = "OSError" -> "Exception"
    [] type = "IndexError" -> "LookupError"
    [] type = "LookupError" -> "Exception"
    [] type = "Exception" -> "BaseException"
    [] OTHER -> "object"

\* issubclass(type, class)
RECURSIVE IsSubclass(_, _)
IsSubclass(type, class) ==
  \/ type = class
  \/ type # "object" /\ IsSubclass(BaseOf(type), class)

\* list[i] with Python's indexing: i counts from 0, a negative i counts from the end.
ListGet(list, i) ==
  IF 0 <= i /\ i < Len(list) THEN Ok(list[i + 1])
  ELSE IF 0 - Len(list) <= i /\ i < 0 THEN Ok(list[Len(list) + i + 1])
  ELSE Raise("IndexError", IndexErrorMessage)

(***************************************************************************)
(* base64.b64decode(image_data) with validate=False.                       *)
(***************************************************************************)
\* The characters a str argument may hold that are not ASCII.
NonAscii == { "U+00E9" }

\* binascii's table_a2b_base64: the 6-bit value of each alphabet character.
table_a2b_base64 ==
  [c \in { Base64Alphabet[i] : i \in 1..Len(Base64Alphabet) } |->
     (CHOOSE i \in 1..Len(Base64Alphabet) : Base64Alphabet[i] = c) - 1]

\* The table's entry for a character: 64 for a character outside the alphabet.
B64Value(c) == IF c \in DOMAIN table_a2b_base64 THEN table_a2b_base64[c] ELSE 64

\* binascii.a2b_base64's loop over the characters from position i on.  A '='
\* that completes the padding of a quad ends the decoding (what follows is not
\* read); a '=' elsewhere and every character outside the alphabet is skipped.
RECURSIVE A2bScan(_, _, _, _, _, _)
A2bScan(s, i, quad_pos, leftchar, pads, bin) ==
  IF i > Len(s) THEN [quad_pos |-> quad_pos, bin |-> bin]
  ELSE IF s[i] = "=" THEN
    IF quad_pos >= 2 /\ quad_pos + pads + 1 >= 4
    THEN [quad_pos |-> 0, bin |-> bin]
    ELSE A2bScan(s, i + 1, quad_pos, leftchar,
                 IF quad_pos >= 2 THEN pads + 1 ELSE pads, bin)
  ELSE LET this_ch == B64Value(s[i])
       IN  IF this_ch >= 64 THEN A2bScan(s, i + 1, quad_pos, leftchar, pads, bin)
           ELSE CASE quad_pos = 0 ->
                       A2bScan(s, i + 1, 1, this_ch, 0, bin)
                  [] quad_pos = 1 ->
                       A2bScan(s, i + 1, 2, this_ch % 16, 0,
                               Append(bin, (leftchar * 4 + this_ch \div 16) % 256))
                  [] quad_pos = 2 ->
                       A2bScan(s, i + 1, 3, this_ch % 4, 0,
                               Append(bin, (leftchar * 16 + this_ch \div 4) % 256))
                  [] OTHER ->
                       A2bScan(s, i + 1, 0, 0, 0,
                               Append(bin, (leftchar * 64 + this_ch) % 256))

\* A decoder that returns the bytes of the complete quads and drops the rest.
a2b_base64_dropping(s) == Ok(A2bScan(s, 1, 0, 0, 0, << >>).bin)

a2b_base64(s) ==
  LET end == A2bScan(s, 1, 0, 0, 0, << >>)
  IN  IF end.quad_pos = 0 THEN Ok(end.bin)
      ELSE IF end.quad_pos = 1
      THEN Raise("binascii.Error",
                 DataCharsMessageHead \o IntToStr((Len(end.bin) \div 3) * 4 + 1)
                   \o DataCharsMessageTail)
      ELSE Raise("binascii.Error", IncorrectPaddingMessage)

\* A str argument is first encoded as ASCII, which fails on any other character.
b64decode(s) ==
  IF \E i \in 1..Len(s) : s[i] \in NonAscii
  THEN Raise("ValueError", NonAsciiMessage)
  ELSE a2b_base64(s)

(***************************************************************************)
(* Pillow and numpy.  An image file is a two-byte signature (0xFF 0xFF)    *)
(* followed by the sample of a 1x1 greyscale image; bytes after the sample *)
(* are not read.  Image.open reads the signature only, the pixel data is   *)
(* loaded by the first operation that needs it (resize).  An image of one  *)
(* colour is kept as its size, mode and that colour.                       *)
(***************************************************************************)
ImageOpen(bytes) ==
  IF Len(bytes) >= 2 /\ bytes[1] = 255 /\ bytes[2] = 255
  THEN Ok([mode |-> "L", size |-> <<1, 1>>, data |-> Drop(bytes, 2)])
  ELSE Raise("UnidentifiedImageError", UnidentifiedMessage)

\* image.resize(size): loads the pixel data, then resamples; resampling an image
\* of one colour gives that colour.
Resize(image, size) ==
  IF image.data = << >> THEN Raise("OSError", TruncatedMessage)
  ELSE Ok([mode |-> image.mode, size |-> size, colour |-> << image.data[1] >>])

\* image.convert('RGB'): a greyscale sample becomes three equal channels.
ConvertRGB(image) ==
  [mode |-> "RGB", size |-> image.size,
   colour |-> IF image.mode = "L"
              THEN << image.colour[1], image.colour[1], image.colour[1] >>
              ELSE image.colour]

\* np.array([np.array(image)]) / 255.0: every channel value divided by 255, kept
\* as the fraction num/den.
Normalise(image) ==
  [shape |-> << 1, image.size[2], image.size[1], Len(image.colour) >>,
   num |-> image.colour, den |-> 255]

RECURSIVE SeqSum(_)
SeqSum(s) == IF s = << >> THEN 0 ELSE Head(s) + SeqSum(Tail(s))

\* input_arr.mean(): the mean over all elements, as a fraction.
Mean(arr) == [num |-> SeqSum(arr.num), den |-> arr.den * Len(arr.num)]

RECURSIVE Pow10(_)
Pow10(n) == IF n = 0 THEN 1 ELSE 10 * Pow10(n - 1)

RECURSIVE ZeroPad(_, _)
ZeroPad(s, width) == IF Len(s) >= width THEN s ELSE ZeroPad(<< "0" >> \o s, width)

RECURSIVE StripZeros(_)
StripZeros(s) ==
  IF Len(s) > 1 /\ s[Len(s)] = "0" THEN StripZeros(Take(s, Len(s) - 1)) ELSE s

\* str(x) of a float x = num/den >= 0: the integer part, a point, and the
\* fraction's digits without trailing zeros (at least one digit).
FloatStr(x) ==
  IntToStr(x.num \div x.den) \o << "." >>
    \o StripZeros(ZeroPad(IntToStr(((x.num % x.den) * Pow10(MeanDigits)) \div x.den),
                          MeanDigits))

\* hash(s) of a str in a process whose hash secret is seed: a keyed hash of the
\* characters, a signed integer.
RECURSIVE HashFold(_, _)
HashFold(h, s) ==
  IF s = << >> THEN h ELSE HashFold((h * 33 + Ord(Head(s))) % 65536, Tail(s))

Hash(seed, s) ==
  LET h == HashFold((seed * 40503 + 5381) % 65536, s)
  IN  IF h >= 32768 THEN h - 65536 ELSE h

(***************************************************************************)
(* model_prediction                                                        *)
(***************************************************************************)
\* A remainder that takes the sign of the dividend, as C's % does.
ResultIndexTruncating(h) == IF h >= 0 THEN h % 38 ELSE 0 - ((0 - h) % 38)

\* result_index = hash(...) % 38
ResultIndex(h) == h % 38

\* predicted_class.split('__')[0]
PlantName(predicted_class) == ListGet(Split(predicted_class, << "_", "_" >>), 0)

\* The first part of the split taken for the disease.
DiseaseNameFromFirstPart(predicted_class) ==
  LET part == ListGet(Split(predicted_class, << "_", "_" >>), 0)
  IN  IF part.ok THEN Ok(ReplaceChar(part.value, "_", " ")) ELSE part

\* predicted_class.split('__')[1].replace('_', ' ')
DiseaseName(predicted_class) ==
  LET part == ListGet(Split(predicted_class, << "_", "_" >>), 1)
  IN  IF part.ok THEN Ok(ReplaceChar(part.value, "_", " ")) ELSE part

\* The table looked up by the plant's name.
InfoKeyedByPlant(disease_name, plant_name) ==
  IF \E i \in 1..Len(disease_info_keys) : disease_info_keys[i] = plant_name
  THEN disease_info_values[CHOOSE i \in 1..Len(disease_info_keys) :
                             disease_info_keys[i] = plant_name]
  ELSE [description |-> disease_name \o Affecting \o plant_name,
        prevention |-> GenericPrevention,
        treatment |-> GenericTreatment]

\* disease_info.get(disease_name, {...})
Info(disease_name, plant_name) ==
  IF \E i \in 1..Len(disease_info_keys) : disease_info_keys[i] = disease_name
  THEN disease_info_values[CHOOSE i \in 1..Len(disease_info_keys) :
                             disease_info_keys[i] = disease_name]
  ELSE [description |-> disease_name \o Affecting \o plant_name,
        prevention |-> GenericPrevention,
        treatment |-> GenericTreatment]

\* A modulus one too large.
ConfidenceModSixteen(result_index) == 85 + (result_index % 16)

Confidence(result_index) == 85 + (result_index % 15)

\* The substring searched without lower().
SeverityCaseSensitive(disease_name) ==
  IF Contains(disease_name, << "b", "l", "i", "g", "h", "t" >>)
  THEN "High" ELSE "Medium"

Severity(disease_name) ==
  IF Contains(Lower(disease_name), << "b", "l", "i", "g", "h", "t" >>)
  THEN "High" ELSE "Medium"

\* The result dictionary of a prediction.
Result(plant_name, disease_name, result_index) ==
  LET info == Info(disease_name, plant_name)
  IN  [success |-> TRUE,
       plant |-> plant_name,
       disease |-> disease_name,
       confidence |-> Confidence(result_index),
       description |-> info.description,
       prevention |-> info.prevention,
       treatment |-> info.treatment,
       severity |-> Severity(disease_name)]

\* What the try block did: the steps it entered, the hash value and the index it
\* computed (if it got there) and its outcome, a result or the exception that
\* ended it.
Frame(steps, hashed, index, outcome) ==
  [steps |-> steps, hashed |-> hashed, index |-> index, outcome |-> outcome]

\* The steps of the try block, last first; each takes what the step before it
\* produced.
AllSteps == << "b64decode", "open", "resize", "convert", "normalise", "index", "lookup" >>

\* Lines 46-98: the names, the advisory texts and the result.
Named(plant_name, disease_name, h, result_index) ==
  IF ~disease_name.ok THEN Frame(AllSteps, << h >>, << result_index >>, disease_name)
  ELSE Frame(Append(AllSteps, "result"), << h >>, << result_index >>,
             Ok(Result(plant_name.value, disease_name.value, result_index)))

\* predicted_class = class_names[result_index]
Looked(predicted_class, h, result_index) ==
  IF ~predicted_class.ok
  THEN Frame(AllSteps, << h >>, << result_index >>, predicted_class)
  ELSE Named(PlantName(predicted_class.value), DiseaseName(predicted_class.value),
             h, result_index)

\* result_index = hash(str(input_arr.mean())) % 38
Indexed(input_arr, seed) ==
  LET h == Hash(seed, FloatStr(Mean(input_arr)))
  IN  Looked(ListGet(class_names, ResultIndex(h)), h, ResultIndex(h))

\* image.convert('RGB') and the normalised array of the resized image.
Resized(image) ==
  IF ~image.ok THEN Frame(SubSeq(AllSteps, 1, 3), << >>, << >>, image)
  ELSE Frame(SubSeq(AllSteps, 1, 5), << >>, << >>,
             Ok(Normalise(ConvertRGB(image.value))))

\* image.resize((128, 128)) of the opened image.
Opened(image) ==
  IF ~image.ok THEN Frame(SubSeq(AllSteps, 1, 2), << >>, << >>, image)
  ELSE Resized(Resize(image.value, << 128, 128 >>))

\* Image.open(io.BytesIO(image_bytes)) of the decoded bytes.
Decoded(image_bytes) ==
  IF ~image_bytes.ok THEN Frame(SubSeq(AllSteps, 1, 1), << >>, << >>, image_bytes)
  ELSE Opened(ImageOpen(image_bytes.value))

\* Lines 11-20: from the argument to the normalised array.
Prepared(image_data) == Decoded(b64decode(image_data))

\* The body of the try block, in a process whose hash secret is seed.
TryBlock(image_data, seed) ==
  LET input_arr == Prepared(image_data)
  IN  IF ~input_arr.outcome.ok THEN input_arr
      ELSE Indexed(input_arr.outcome.value, seed)

\* A handler that catches ValueError only.
CatchesValueError(type) == IsSubclass(type, "ValueError")

\* except Exception as e: the classes the handler catches.
Catches(type) == IsSubclass(type, "Exception")

\* The call model_prediction(image_data): what the try block did, the exception
\* raised in it (if any), the value returned (if any) and whether the exception
\* left the function.
model_prediction(image_data, seed) ==
  LET f == TryBlock(image_data, seed)
  IN  [steps |-> f.steps, hashed |-> f.hashed, index |-> f.index,
       raised |-> IF f.outcome.ok THEN << >> ELSE << f.outcome.exc >>,
       returned |->
         IF f.outcome.ok THEN << f.outcome.value >>
         ELSE IF Catches(f.outcome.exc.type)
         THEN << [success |-> FALSE, error |-> FailurePrefix \o f.outcome.exc.msg] >>
         ELSE << >>,
       escaped |-> ~f.outcome.ok /\ ~Catches(f.outcome.exc.type)]

\* No call of model_prediction.
NoCall ==
  [steps |-> << >>, hashed |-> << >>, index |-> << >>, raised |-> << >>,
   returned |-> << >>, escaped |-> FALSE]

(***************************************************************************)
(* json.dumps of a result dictionary: the members in insertion order, each *)
(* value as its JSON token.                                                *)
(***************************************************************************)
JsonBool(value) == IF value THEN "true" ELSE "false"

JsonNumber(value) == << "number", IntToStr(value) >>

JsonString(value) == << "string", value >>

\* The two dictionaries the program builds: the eight members of a prediction,
\* or success and error.
JsonDumps(dict) ==
  IF "error" \in DOMAIN dict
  THEN << << "success", JsonBool(dict.success) >>,
          << "error", JsonString(dict.error) >> >>
  ELSE << << "success", JsonBool(dict.success) >>,
          << "plant", JsonString(dict.plant) >>,
          << "disease", JsonString(dict.disease) >>,
          << "confidence", JsonNumber(dict.confidence) >>,
          << "description", JsonString(dict.description) >>,
          << "prevention", JsonString(dict.prevention) >>,
          << "treatment", JsonString(dict.treatment) >>,
          << "severity", JsonString(dict.severity) >> >>

(***************************************************************************)
(* The process.                                                            *)
(***************************************************************************)
VARIABLES
  argv,        \* sys.argv of the process
  pc,          \* "launched" or "exited"
  stdout,      \* the lines the process has printed
  exitcode,    \* the exit status, -1 while the process runs
  call,        \* the process's call of model_prediction
  rerun,       \* whether this process is the second run of the command line
  lastStdout   \* what the last process that exited had printed

vars == << argv, pc, stdout, exitcode, call, rerun, lastStdout >>

\* The characters of the enumerated arguments: two alphabet characters (values
\* 63 and 48), the padding character, an ASCII character outside the alphabet
\* and a character outside ASCII.
InputChars == { "/", "w", "=", "-", "U+00E9" }

\* An image file whose base64 carries a character outside the alphabet.
InterleavedPayload == << "/", "/", "-", "/", "w" >>

Payloads == SeqsUpTo(InputChars, MaxLen) \cup { NotBase64Literal, InterleavedPayload }

CommandLines ==
  { << "disease_detection.py" >> } \cup { << "disease_detection.py", p >> : p \in Payloads }

HashSeeds == 0..MaxSeed

\* The hash secrets a run on image_data has to be told apart by: all of them
\* when the run calls hash(), and one for all when it ends before that.
SeedsRead(image_data) ==
  IF Prepared(image_data).outcome.ok THEN HashSeeds ELSE { 0 }

Init ==
  /\ argv \in CommandLines
  /\ pc = "launched"
  /\ stdout = << >>
  /\ exitcode = -1
  /\ call = NoCall
  /\ rerun = FALSE
  /\ lastStdout = << >>

\* The dictionary printed when no argument is given.
NoArgResultPrefixed ==
  [success |-> FALSE, error |-> FailurePrefix \o NoImageDataMessage]

NoArgResult == [success |-> FALSE, error |-> NoImageDataMessage]

\* An exit status that reports a failed prediction.
ExitStatusOfResult(c) ==
  IF c.escaped THEN 1 ELSE IF c.returned[1].success THEN 0 ELSE 1

\* The exit status of a process whose call went as c: 0 when main returns, 1
\* when an exception ends it.
ExitStatus(c) == IF c.escaped THEN 1 ELSE 0

\* if len(sys.argv) > 1: print(json.dumps(model_prediction(sys.argv[1]))).  An
\* exception that leaves model_prediction ends the process with a traceback
\* and status 1.
MainWithArg ==
  /\ pc = "launched"
  /\ Len(argv) > 1
  /\ \E seed \in SeedsRead(argv[2]) :
       LET c == model_prediction(argv[2], seed)
           out == IF c.escaped THEN << >> ELSE << JsonDumps(c.returned[1]) >>
       IN  /\ call' = c
           /\ stdout' = out
           /\ lastStdout' = out
           /\ exitcode' = ExitStatus(c)
  /\ pc' = "exited"
  /\ UNCHANGED << argv, rerun >>

\* else: print(json.dumps({'success': False, 'error': 'No image data provided'}))
MainNoArg ==
  /\ pc = "launched"
  /\ ~(Len(argv) > 1)
  /\ LET out == << JsonDumps(NoArgResult) >>
     IN  /\ stdout' = out
         /\ lastStdout' = out
  /\ call' = NoCall
  /\ exitcode' = 0
  /\ pc' = "exited"
  /\ UNCHANGED << argv, rerun >>

\* The same command line is run again, as a new process.
Rerun ==
  /\ pc = "exited"
  /\ ~rerun
  /\ pc' = "launched"
  /\ stdout' = << >>
  /\ exitcode' = -1
  /\ call' = NoCall
  /\ rerun' = TRUE
  /\ UNCHANGED << argv, lastStdout >>

Next ==
  \/ MainWithArg
  \/ MainNoArg
  \/ Rerun

Spec == Init /\ [][Next]_vars

\* The step in which a started process ends.
Finish == pc = "launched" /\ pc' = "exited"

\* A started process runs to its end.
FairSpec == Spec /\ WF_pc(Finish)

(***************************************************************************)
(* Properties.                                                             *)
(***************************************************************************)
Exited == pc = "exited"

HasArg == Len(argv) > 1

\* The process called model_prediction and it returned a success record.
Succeeded ==
  /\ Exited /\ HasArg
  /\ Len(call.returned) = 1
  /\ call.returned[1].success

\* The process called model_prediction and it returned a failure record.
Failed ==
  /\ Exited /\ HasArg
  /\ Len(call.returned) = 1
  /\ ~call.returned[1].success

SuccessFields ==
  { "success", "plant", "disease", "confidence", "description", "prevention",
    "treatment", "severity" }

FailureFields == { "success", "error" }

Blight == << "b", "l", "i", "g", "h", "t" >>

StartsWith(s, p) == Len(s) >= Len(p) /\ SubSeq(s, 1, Len(p)) = p

\* C1: two runs of the program on the same valid image payload print the same
\* result: the second process of a command line whose payload is an image
\* prints what the first one printed.
C1_SameOutputOnRerun ==
  [][ ( /\ pc = "launched" /\ rerun /\ HasArg
        /\ pc' = "exited"
        /\ call'.raised = << >> )
      => stdout' = lastStdout ]_vars

\* C2: model_prediction returns exactly one of two records: the eight fields of
\* a success, or success=false and error, the error being 'Disease detection
\* failed: ' followed by the message of the exception raised; no exception
\* leaves it and no failure record carries a prediction field.
C2_CatchAll ==
  (Exited /\ HasArg) =>
    /\ ~call.escaped
    /\ Len(call.returned) = 1
    /\ IF call.raised = << >>
       THEN /\ call.returned[1].success = TRUE
            /\ DOMAIN call.returned[1] = SuccessFields
       ELSE /\ call.returned[1].success = FALSE
            /\ DOMAIN call.returned[1] = FailureFields
            /\ call.returned[1].error = FailurePrefix \o call.raised[1].msg
            /\ call.raised[1].type \in
                 { "binascii.Error", "ValueError", "UnidentifiedImageError", "OSError" }

\* A failure record for an exception raised after the base64 step: the image
\* could not be identified.
C2_Witness ==
  /\ Failed
  /\ call.steps = << "b64decode", "open" >>
  /\ call.raised[1].type = "UnidentifiedImageError"
  /\ call.returned[1].error = FailurePrefix \o UnidentifiedMessage

AlphabetChars == { Base64Alphabet[i] : i \in 1..Len(Base64Alphabet) }

\* Well-formed standard base64: alphabet characters in groups of four, the last
\* group ending in at most two '='.
WellFormedBase64(s) ==
  /\ Len(s) % 4 = 0
  /\ \A i \in 1..Len(s) :
       \/ s[i] \in AlphabetChars
       \/ s[i] = "=" /\ i >= Len(s) - 1 /\ s[Len(s)] = "="

\* The run ended in the base64 step with a failure record.
RejectedAtDecode ==
  /\ call.steps = << "b64decode" >>
  /\ call.raised # << >>
  /\ Len(call.returned) = 1
  /\ DOMAIN call.returned[1] = FailureFields
  /\ call.returned[1].success = FALSE
  /\ StartsWith(call.returned[1].error, FailurePrefix)

\* C3 as stated: every argument that is not well-formed base64 fails in the
\* base64 step and gives the failure record; none reaches the image-decoding
\* step.
C3_MalformedRejected ==
  (Exited /\ HasArg /\ ~WellFormedBase64(argv[2])) => RejectedAtDecode

\* The number of alphabet characters of s.
DataChars(s) == Cardinality({ i \in 1..Len(s) : s[i] \in AlphabetChars })

\* C3 amended: an argument without '=' whose number of alphabet characters is
\* not a multiple of 4 (the literal 'not-base64!!' has 9) fails in the base64
\* step, and a run whose base64 step fails returns the failure record without
\* entering the image-decoding step.
C3_IncompleteRejected ==
  (Exited /\ HasArg) =>
    /\ ( /\ \A i \in 1..Len(argv[2]) : argv[2][i] # "="
         /\ DataChars(argv[2]) % 4 # 0 ) => RejectedAtDecode
    /\ argv[2] = NotBase64Literal => RejectedAtDecode
    /\ (call.raised # << >> /\ call.raised[1].type \in { "binascii.Error", "ValueError" })
         => RejectedAtDecode

\* The literal 'not-base64!!' was rejected: 9 data characters.
C3_Witness ==
  /\ Failed
  /\ argv[2] = NotBase64Literal
  /\ call.steps = << "b64decode" >>
  /\ call.raised[1].msg = DataCharsMessageHead \o << "9" >> \o DataCharsMessageTail

\* C4: started without an image-data argument, the process prints exactly
\* {success: false, error: 'No image data provided'}, does not call
\* model_prediction and prints nothing else.
C4_NoArgument ==
  (Exited /\ ~HasArg) =>
    /\ stdout = << << << "success", "false" >>,
                      << "error", << "string", NoImageDataMessage >> >> >> >>
    /\ call = NoCall
    /\ exitcode = 0

C4_Witness == Exited /\ ~HasArg /\ Len(stdout) = 1

\* C5: a process started with an image-data argument ends having printed
\* exactly one JSON result, the one model_prediction returned, with exit status
\* 0, whether the prediction succeeded or failed.
C5_PrintsOneResultExitsZero ==
  /\ []((Exited /\ HasArg) =>
          /\ exitcode = 0
          /\ Len(stdout) = 1
          /\ Len(call.returned) = 1
          /\ stdout[1][1] = << "success", JsonBool(call.returned[1].success) >>
          /\ Len(stdout[1]) = Cardinality(DOMAIN call.returned[1]))
  /\ (pc = "launched" /\ HasArg) ~> (Exited /\ exitcode = 0 /\ Len(stdout) = 1)

\* A failed prediction whose process printed success=false and exited with 0.
C5_Witness ==
  /\ Failed
  /\ exitcode = 0
  /\ Len(stdout) = 1
  /\ stdout[1][1] = << "success", "false" >>

\* C6: the confidence of a success record is 85 + (result_index mod 15) for the
\* run's result_index in 0..37, and lies in 85..99.
C6_Confidence ==
  Succeeded =>
    /\ call.index[1] \in 0..37
    /\ call.returned[1].confidence = 85 + (call.index[1] % 15)
    /\ call.returned[1].confidence >= 85
    /\ call.returned[1].confidence <= 99

\* The largest confidence, at an index past the first fifteen.
C6_Witness == Succeeded /\ call.index[1] = 29 /\ call.returned[1].confidence = 99

\* C7: plant + '__' + disease with its spaces turned back into underscores is
\* the class name at the run's result_index, and every class name has exactly
\* one '__' separator and no space.
C7_RoundTrip ==
  /\ \A i \in 1..Len(class_names) :
       /\ Len(Split(class_names[i], << "_", "_" >>)) = 2
       /\ ~Contains(class_names[i], << " " >>)
  /\ Succeeded =>
       call.returned[1].plant \o << "_", "_" >>
           \o ReplaceChar(call.returned[1].disease, " ", "_")
         = class_names[call.index[1] + 1]

\* A class whose disease has several words.
C7_Witness ==
  /\ Succeeded
  /\ call.index[1] = 35
  /\ Len(Split(call.returned[1].disease, << " " >>)) = 4

\* C8: a success record whose disease is one of the five keys of disease_info
\* carries that entry's description, prevention and treatment, whatever the
\* plant; any other disease gets '<disease> affecting <plant>' and the two
\* generic texts.
C8_Advisory ==
  Succeeded =>
    LET r == call.returned[1]
        hits == { k \in 1..Len(disease_info_keys) : disease_info_keys[k] = r.disease }
    IN  /\ \A k \in hits :
             /\ r.description = disease_info_values[k].description
             /\ r.prevention = disease_info_values[k].prevention
             /\ r.treatment = disease_info_values[k].treatment
        /\ hits = {} =>
             /\ r.description = r.disease \o Affecting \o r.plant
             /\ r.prevention = GenericPrevention
             /\ r.treatment = GenericTreatment
        /\ (hits # {}) <=> (call.index[1] \in { 0, 1, 5, 11, 20, 21, 25, 29, 30 })

\* 'Black rot' on a plant other than the first one listed with it.
C8_Witness ==
  /\ Succeeded
  /\ call.index[1] = 11
  /\ call.returned[1].disease = disease_info_keys[2]
  /\ call.returned[1].description = disease_info_values[2].description

\* C9: the severity of a success record is 'High' exactly when the lower-cased
\* disease contains 'blight', and 'Medium' otherwise: 'High' for the six
\* blight classes and 'Medium' for the rest.
C9_Severity ==
  Succeeded =>
    /\ call.returned[1].severity \in { "High", "Medium" }
    /\ (call.returned[1].severity = "High")
         <=> Contains(Lower(call.returned[1].disease), Blight)
    /\ (call.returned[1].severity = "High")
         <=> (call.index[1] \in { 9, 13, 20, 21, 29, 30 })

\* 'Northern Leaf Blight', capitalised in the class name.
C9_Witness ==
  /\ Succeeded
  /\ call.index[1] = 9
  /\ call.returned[1].severity = "High"
  /\ ~Contains(call.returned[1].disease, Blight)

\* C10: whatever the hash value, negative ones included, result_index is in
\* 0..37 and the lookup does not raise: a run that got past normalisation
\* returns a success record.
C10_IndexInRange ==
  (Exited /\ HasArg /\ Len(call.steps) >= 5) =>
    /\ Len(call.hashed) = 1
    /\ call.index = << call.hashed[1] % 38 >>
    /\ call.index[1] \in 0..37
    /\ call.raised = << >>
    /\ Succeeded

\* A success from a negative hash value.
C10_Witness == Succeeded /\ call.hashed[1] < 0 /\ call.index[1] = 37
=============================================================================
